---- MODULE Spec2Model ----
(***************************************************************************)
(* SmartInvoice: a poller that uploads pending invoice PDFs to Google      *)
(* Drive, flags the row as downloaded and notifies the customer by SMS.    *)
(* The model follows sms.js (src/unnamed/part_000) and src/config/db.js.   *)
(* Every "await" of the source is a point where another timer callback may *)
(* run, so each action below is the code between two awaits.               *)
(***************************************************************************)
EXTENDS Naturals, Sequences, FiniteSets

\* ---------------------------------------------------------------- bounds
NumRows == 2      \* rows of tb_SMART_INVOICE
MaxTicks == 2     \* poll callbacks that may be in flight at once
MaxDocs == 2      \* documents created in Drive per row
MaxMid == 9       \* longest run of digits tried in the phone inputs
NumFiles == 3     \* files in Drive when the retention sweeps start
MaxSweeps == 2    \* firings of the 24 h timer
MaxFolders == 4   \* folders Drive may hold
MaxCalls == 2     \* sequential calls of getOrCreateFolder

\* ---------------------------------------------------------------- constants
RetentionDays == 7   \* line 277
SweepPeriodDays == 1 \* line 316: 24 h

Rows == 1..NumRows
Ticks == 1..MaxTicks

VARIABLES
  proc,          \* "up" | "exit1"  (process.exit(1) was called)
  mainPc,        \* position of the main async function
  credsExist,    \* CREDENTIALS_PATH exists
  tokenExists,   \* TOKEN_PATH exists
  tokenJsonOk,   \* TOKEN_PATH holds parseable JSON
  tokenFile,     \* fields present in the JSON object at TOKEN_PATH
  token,         \* the closure variable `token` of authorize (line 36)
  listener,      \* which "tokens" listener is registered: none|merge|replace
  reauth,        \* "no" | "missing" | "invalid_grant": why the loaded token was refused
  pool,          \* db.js `pool`: 0 = undefined, k = the k-th pool object
  connectCalls,  \* calls of mssql.connect
  flag,          \* DOWNLOAD column: "F" (Pending) | "T" (Uploaded)
  phone,         \* MOBILENO column
  docs,          \* documents created in the Drive folder for the row
  uploaded,      \* uploadToDrive has returned a link for the row
  notifyFailed,  \* rows for which a sendSMS call ended in failure
  pc,            \* per tick: idle|connect|query|create|perm|update|smsLookup|smsGet|smsLog|done
  rs,            \* per tick: result.recordset, as the sequence of row ids
  idx,           \* per tick: position of the for..of loop in rs
  out,           \* per tick: how the processing of each row so far ended
  link,          \* per tick: which document of the row `file` is (0: none created)
  req,           \* per tick: the request sent to the SMS gateway for the row
  found,         \* per tick: the answer under way to the customer SELECT of sendSMS
  resp,          \* per tick: the answer under way to the gateway request
  smsLog,        \* the records of tb_SMS_LOG
  rawPhone,      \* phone validation on its own: the input string
  customerPhone, \*   the value of `customerPhone`
  toParam,       \*   the `to` parameter of the gateway url
  phonePc,       \*   "start" | "valid" | "skipped" | "sent"
  files,         \* retention sweep on its own: per file its createdTime (day), mimeType, parent
  present,       \*   the files not deleted
  now,           \*   the day of `new Date()`
  oneWeekAgo,    \*   the variable `oneWeekAgo` of the sweep under way
  listing,       \*   res.data.files, as a sequence of file ids
  sweepIdx,      \*   position of the for..of loop in listing
  sweepPc,       \*   "off" | "idle" | "list" | "delete" | "done"
  sweepErr,      \*   the catch of the sweep under way was reached
  attempted,     \*   files for which the sweep under way has called files.delete
  sweeps,        \*   firings of the 24 h timer so far
  folders,       \* getOrCreateFolder on its own: the folders in Drive, [id, name, parent]
  folderPath,    \*   folderNames
  folderPc,      \*   "off" | "idle" | "list" | "create" | "returned" | "failed"
  folderSeg,     \*   position of the for..of loop in folderNames
  currentParentId, \* 0 = null
  handles,       \*   what the completed calls returned
  madeBy         \*   how many folders each completed or running call created

authVars == <<credsExist, tokenExists, tokenJsonOk, tokenFile, token, listener, reauth>>
dbVars == <<pool, connectCalls, flag, phone>>
driveVars == <<docs, uploaded>>
tickVars == <<pc, rs, idx, out>>
rowVars == <<link, req>>
smsVars == <<rowVars, found, resp, smsLog>>
phoneVars == <<rawPhone, customerPhone, toParam, phonePc>>
sweepVars == <<files, present, now, oneWeekAgo, listing, sweepIdx, sweepPc, sweepErr, attempted, sweeps>>
folderVars == <<folders, folderPath, folderPc, folderSeg, currentParentId, handles, madeBy>>
sideVars == <<sweepVars, folderVars>>
vars == <<proc, mainPc, authVars, dbVars, driveVars, notifyFailed, tickVars, smsVars, phoneVars, sideVars>>

\* ---------------------------------------------------------------- strings
Digits == {"0", "1", "2", "3", "4", "5", "6", "7", "8", "9"}

\* number of \d in both regular expressions
DigitCount == 9

\* a regular expression ^...$ made of literals and \d ("d") only
Pat94 == <<"9", "4">> \o [i \in 1..DigitCount |-> "d"]
Pat0 == <<"0">> \o [i \in 1..DigitCount |-> "d"]

\* the same without the $ anchor
RegexTestUnanchored(pat, s) ==
  /\ Len(s) >= Len(pat)
  /\ \A i \in 1..Len(pat) : IF pat[i] = "d" THEN s[i] \in Digits ELSE s[i] = pat[i]

RegexTest(pat, s) ==
  /\ Len(s) = Len(pat)
  /\ \A i \in 1..Len(pat) : IF pat[i] = "d" THEN s[i] \in Digits ELSE s[i] = pat[i]

\* String.prototype.slice(n)
Slice(s, n) == IF n >= Len(s) THEN <<>> ELSE SubSeq(s, n + 1, Len(s))

Null == <<"null">>

\* lines 333-341: the value of customerPhone, Null standing for the `continue` branch
FormatPhone(raw) ==
  IF RegexTest(Pat94, raw) THEN <<"0">> \o Slice(raw, 2)
  ELSE IF RegexTest(Pat0, raw) THEN raw
  ELSE Null

\* the invalid branch without its `continue`
ValidPhoneAlways(raw) == TRUE

ValidPhone(raw) == FormatPhone(raw) # Null

PhoneIntl == <<"9", "4", "7", "7", "1", "2", "3", "4", "5", "6", "7">>
PhoneLocal == <<"0", "7", "7", "1", "2", "3", "4", "5", "6", "7">>
PhoneBad == <<"1", "2", "3">>

\* ---------------------------------------------------------------- authorize
TokenFields == {"refresh_token", "access_token", "expiry_date"}
TokenRecords == SUBSET TokenFields

\* what oAuth2Client.getToken(code) may answer: an access token with its expiry,
\* and a refresh token or none
TokenResponses == {r \in TokenRecords : {"access_token", "expiry_date"} \subseteq r}

\* what a "tokens" event may carry after a refresh
RefreshEvents == {r \in TokenRecords : "access_token" \in r}

\* { ...a, ...b } on the fields present
Spread(a, b) == a \cup b

\* process.exit(1) in the catch of the main function (lines 371-374)
StartupExit ==
  /\ proc' = "exit1"
  /\ mainPc' = "failed"

\* lines 21-46 and 73-100: from the call of authorize to its first await
AuthStart ==
  /\ proc = "up"
  /\ mainPc = "start"
  /\ IF ~credsExist
       THEN /\ StartupExit
            /\ UNCHANGED authVars
       ELSE IF tokenExists
         THEN IF ~tokenJsonOk
                THEN /\ mainPc' = "prompt"
                     /\ UNCHANGED <<proc, authVars>>
                ELSE IF "refresh_token" \notin tokenFile
                  THEN /\ mainPc' = "prompt"
                       /\ token' = tokenFile
                       /\ reauth' = "missing"
                       /\ UNCHANGED <<proc, credsExist, tokenExists, tokenJsonOk, tokenFile, listener>>
                  ELSE /\ mainPc' = "refresh"
                       /\ token' = tokenFile
                       /\ UNCHANGED <<proc, credsExist, tokenExists, tokenJsonOk, tokenFile, listener, reauth>>
         ELSE /\ mainPc' = "prompt"
              /\ UNCHANGED <<proc, authVars>>
  /\ UNCHANGED <<dbVars, driveVars, notifyFailed, tickVars, smsVars, phoneVars, sideVars>>

\* lines 45-77: await oAuth2Client.getAccessToken() settles
AuthRefreshDone ==
  /\ proc = "up"
  /\ mainPc = "refresh"
  /\ \E res \in {"ok", "invalid_grant", "other"} :
       IF res = "ok"
         THEN /\ listener' = "merge"
              /\ mainPc' = "folder"
              /\ UNCHANGED reauth
         ELSE /\ mainPc' = "prompt"
              /\ reauth' = IF res = "invalid_grant" THEN "invalid_grant" ELSE reauth
              /\ UNCHANGED listener
  /\ UNCHANGED <<proc, credsExist, tokenExists, tokenJsonOk, tokenFile, token>>
  /\ UNCHANGED <<dbVars, driveVars, notifyFailed, tickVars, smsVars, phoneVars, sideVars>>

\* lines 94-103: the operator answers the prompt, getToken(code) is called
AuthPromptAnswered ==
  /\ proc = "up"
  /\ mainPc = "prompt"
  /\ mainPc' = "exchange"
  /\ UNCHANGED <<proc, authVars, dbVars, driveVars, notifyFailed, tickVars, smsVars, phoneVars, sideVars>>

\* lines 103-126: await oAuth2Client.getToken(code) settles
AuthExchangeDone ==
  /\ proc = "up"
  /\ mainPc = "exchange"
  /\ \/ /\ StartupExit
        /\ UNCHANGED authVars
     \/ \E tokens \in TokenResponses :
          IF "refresh_token" \notin tokens
            THEN /\ StartupExit
                 /\ UNCHANGED authVars
            ELSE \/ /\ StartupExit          \* fs.writeFileSync throws
                    /\ UNCHANGED authVars
                 \/ /\ tokenFile' = tokens
                    /\ tokenExists' = TRUE
                    /\ tokenJsonOk' = TRUE
                    /\ listener' = "replace"
                    /\ mainPc' = "folder"
                    /\ UNCHANGED <<proc, credsExist, token, reauth>>
  /\ UNCHANGED <<dbVars, driveVars, notifyFailed, tickVars, smsVars, phoneVars, sideVars>>

\* lines 62-70 and 112-120: the registered "tokens" listener runs
TokensEvent ==
  /\ proc = "up"
  /\ listener # "none"
  /\ \E tokens \in RefreshEvents :
       \/ /\ tokenFile' = IF listener = "merge" THEN Spread(token, tokens) ELSE Spread({}, tokens)
          /\ tokenExists' = TRUE
          /\ tokenJsonOk' = TRUE
       \/ UNCHANGED <<tokenFile, tokenExists, tokenJsonOk>>   \* writeErr is caught
  /\ UNCHANGED <<proc, mainPc, credsExist, token, listener, reauth>>
  /\ UNCHANGED <<dbVars, driveVars, notifyFailed, tickVars, smsVars, phoneVars, sideVars>>

\* lines 309-370: await getOrCreateFolder settles; on success both timers are set
FolderDone ==
  /\ proc = "up"
  /\ mainPc = "folder"
  /\ \/ StartupExit
     \/ /\ mainPc' = "polling"
        /\ UNCHANGED proc
  /\ UNCHANGED <<authVars, dbVars, driveVars, notifyFailed, tickVars, smsVars, phoneVars, sideVars>>

\* ---------------------------------------------------------------- poll tick
\* the SELECT without its WHERE clause
SelectAll(f, i) == [k \in 1..(NumRows + 1 - i) |-> i + k - 1]

\* SELECT * FROM tb_SMART_INVOICE WHERE DOWNLOAD = 'F'  (rows from IDX i on)
RECURSIVE SelectPending(_, _)
SelectPending(f, i) ==
  IF i > NumRows THEN <<>>
  ELSE (IF f[i] = "F" THEN <<i>> ELSE <<>>) \o SelectPending(f, i + 1)

\* lines 327-341: the first position from i on whose row passes the phone check
RECURSIVE NextValid(_, _)
NextValid(seq, i) ==
  IF i > Len(seq) THEN i
  ELSE IF ValidPhone(phone[seq[i]]) THEN i
  ELSE NextValid(seq, i + 1)

\* ---- the SMS gateway and its log
NoReq == [to |-> Null, text |-> <<>>]
NoReply == <<"none">>
Thrown == <<"throw">>

\* file.data.webViewLink of the k-th document created for row r
LinkOf(r, k) == <<"link", r, k>>

\* line 232: the message text, as the fixed words and the link
MessageText(l) == <<"Dear customer, your bill is available at: ", l>>

\* line 233: querystring.escape, part by part
Escape(text) == [i \in DOMAIN text |-> <<"escaped", text[i]>>]

\* line 234: the parameters `to` and `text` of the url
GatewayUrl(to, l) == [to |-> to, text |-> Escape(MessageText(l))]

\* String.prototype.trim on blanks
RECURSIVE TrimLeft(_)
TrimLeft(s) == IF s # <<>> /\ Head(s) = " " THEN TrimLeft(Tail(s)) ELSE s
RECURSIVE TrimRight(_)
TrimRight(s) ==
  IF s # <<>> /\ s[Len(s)] = " " THEN TrimRight(SubSeq(s, 1, Len(s) - 1)) ELSE s
Trim(s) == TrimRight(TrimLeft(s))

\* responseText.split(":")[0]
RECURSIVE FirstField(_)
FirstField(s) ==
  IF s = <<>> \/ Head(s) = ":" THEN <<>> ELSE <<Head(s)>> \o FirstField(Tail(s))

\* lines 237-241: res[0].trim() === "OK"
GatewayOk(data) == Trim(FirstField(Trim(data))) = <<"O", "K">>

\* what the gateway may answer: response.data, or the request throws
GatewayTexts ==
  { <<"O", "K", ":", "1", "2", "3", "4", "5">>,
    <<" ", "O", "K", " ">>,
    <<"O", "K", "A", "Y", ":", "1">>,
    <<"E", "R", "R", ":", "O", "K">> }
GatewayReplies == GatewayTexts \cup {Thrown}

\* what the customer SELECT may answer: it throws, no row, or a row with its
\* SMARTINVOICE_ACTIVE
LookupReplies == {"throw", "none", "F", "T"}

\* lines 327-349: the for..of loop over seq from position i up to its next await
\* (drive.files.create inside uploadToDrive) or to the end of the callback
RowLoop(t, seq, i, o) ==
  LET j == NextValid(seq, i)
      skipped == [k \in 1..(j - i) |-> "invalid"]
  IN /\ rs' = [rs EXCEPT ![t] = seq]
     /\ idx' = [idx EXCEPT ![t] = j]
     /\ out' = [out EXCEPT ![t] = o \o skipped]
     /\ pc' = [pc EXCEPT ![t] = IF j > Len(seq) THEN "done" ELSE "create"]
     /\ link' = [link EXCEPT ![t] = 0]
     /\ req' = [req EXCEPT ![t] = NoReq]

\* the row the loop of tick t is at
Cur(t) == rs[t][idx[t]]

\* a row's error ending the whole callback
RowEndsAbort(t, result) ==
  IF result \in {"uploadErr", "updateErr", "smsFail"}
    THEN /\ pc' = [pc EXCEPT ![t] = "done"]
         /\ out' = [out EXCEPT ![t] = Append(@, result)]
         /\ link' = [link EXCEPT ![t] = 0]
         /\ req' = [req EXCEPT ![t] = NoReq]
         /\ UNCHANGED <<rs, idx>>
    ELSE RowLoop(t, rs[t], idx[t] + 1, Append(out[t], result))

\* lines 362-366 (or the end of the try body): the row's processing ends with
\* `result`, the loop goes on with the next row
RowEnds(t, result) == RowLoop(t, rs[t], idx[t] + 1, Append(out[t], result))

\* lines 319-321 and db.js 19-25: the poll timer fires, connectToDatabase is called
TickFire(t) ==
  /\ proc = "up"
  /\ mainPc = "polling"
  /\ pc[t] \in {"idle", "done"}
  /\ rs' = [rs EXCEPT ![t] = <<>>]
  /\ idx' = [idx EXCEPT ![t] = 1]
  /\ out' = [out EXCEPT ![t] = <<>>]
  /\ IF pool # 0
       THEN /\ pc' = [pc EXCEPT ![t] = "query"]
            /\ UNCHANGED connectCalls
       ELSE /\ pc' = [pc EXCEPT ![t] = "connect"]
            /\ connectCalls' = connectCalls + 1
  /\ UNCHANGED <<proc, mainPc, authVars, pool, flag, phone, driveVars, notifyFailed, smsVars,
                 phoneVars, sideVars>>

\* db.js 25-31: await mssql.connect settles
ConnectDone(t) ==
  /\ proc = "up"
  /\ pc[t] = "connect"
  /\ \/ /\ pool' = pool + 1
        /\ pc' = [pc EXCEPT ![t] = "query"]
        /\ UNCHANGED proc
     \/ /\ proc' = "exit1"           \* process.exit(1) in the catch of connectToDatabase
        /\ UNCHANGED <<pool, pc>>
  /\ UNCHANGED <<mainPc, authVars, connectCalls, flag, phone, driveVars, notifyFailed,
                 rs, idx, out, smsVars, phoneVars, sideVars>>

\* lines 322-349 and 367-369: the SELECT settles
QueryDone(t) ==
  /\ proc = "up"
  /\ pc[t] = "query"
  /\ \/ RowLoop(t, SelectPending(flag, 1), 1, <<>>)
     \/ /\ pc' = [pc EXCEPT ![t] = "done"]        \* pollErr is caught and logged
        /\ UNCHANGED <<rs, idx, out, rowVars>>
  /\ UNCHANGED <<proc, mainPc, authVars, dbVars, driveVars, notifyFailed, found, resp, smsLog,
                 phoneVars, sideVars>>

\* lines 180-193: drive.files.create settles
CreateDone(t) ==
  /\ proc = "up"
  /\ pc[t] = "create"
  /\ \/ /\ docs[Cur(t)] < MaxDocs
        /\ docs' = [docs EXCEPT ![Cur(t)] = @ + 1]
        /\ link' = [link EXCEPT ![t] = docs[Cur(t)] + 1]
        /\ pc' = [pc EXCEPT ![t] = "perm"]
        /\ UNCHANGED <<rs, idx, out, req>>
     \/ /\ RowEnds(t, "uploadErr")
        /\ UNCHANGED docs
  /\ UNCHANGED <<proc, mainPc, authVars, dbVars, uploaded, notifyFailed, found, resp, smsLog,
                 phoneVars, sideVars>>

\* a failed permission grant taken for a success
PermDoneSwallowed(t) ==
  /\ proc = "up"
  /\ pc[t] = "perm"
  /\ \/ uploaded' = [uploaded EXCEPT ![Cur(t)] = TRUE]
     \/ UNCHANGED uploaded
  /\ pc' = [pc EXCEPT ![t] = "update"]
  /\ UNCHANGED <<rs, idx, out>>
  /\ UNCHANGED <<proc, mainPc, authVars, dbVars, docs, notifyFailed, smsVars, phoneVars, sideVars>>

\* a failed permission grant followed by the deletion of the document
PermDoneCompensated(t) ==
  /\ proc = "up"
  /\ pc[t] = "perm"
  /\ \/ /\ uploaded' = [uploaded EXCEPT ![Cur(t)] = TRUE]
        /\ pc' = [pc EXCEPT ![t] = "update"]
        /\ UNCHANGED <<rs, idx, out, rowVars, docs>>
     \/ /\ RowEnds(t, "uploadErr")
        /\ docs' = [docs EXCEPT ![Cur(t)] = @ - 1]
        /\ UNCHANGED uploaded
  /\ UNCHANGED <<proc, mainPc, authVars, dbVars, notifyFailed, found, resp, smsLog,
                 phoneVars, sideVars>>

\* lines 193-204 and 349-357: drive.permissions.create settles; on success
\* uploadToDrive returns the link and the UPDATE is issued
PermDone(t) ==
  /\ proc = "up"
  /\ pc[t] = "perm"
  /\ \/ /\ uploaded' = [uploaded EXCEPT ![Cur(t)] = TRUE]
        /\ pc' = [pc EXCEPT ![t] = "update"]
        /\ UNCHANGED <<rs, idx, out, rowVars>>
     \/ /\ RowEnds(t, "uploadErr")
        /\ UNCHANGED uploaded
  /\ UNCHANGED <<proc, mainPc, authVars, dbVars, docs, notifyFailed, found, resp, smsLog,
                 phoneVars, sideVars>>

\* the UPDATE matching no row
UpdateDoneNoFlag(t) ==
  /\ proc = "up"
  /\ pc[t] = "update"
  /\ \/ /\ pc' = [pc EXCEPT ![t] = "smsLookup"]
        /\ \E reply \in LookupReplies : found' = [found EXCEPT ![t] = reply]
        /\ UNCHANGED <<rs, idx, out, rowVars>>
     \/ /\ RowEnds(t, "updateErr")
        /\ UNCHANGED found
  /\ UNCHANGED flag
  /\ UNCHANGED <<proc, mainPc, authVars, pool, connectCalls, phone, driveVars, notifyFailed,
                 resp, smsLog, phoneVars, sideVars>>

\* a failed UPDATE that does not stop the row's processing
UpdateDoneSwallowed(t) ==
  /\ proc = "up"
  /\ pc[t] = "update"
  /\ \/ flag' = [flag EXCEPT ![Cur(t)] = "T"]
     \/ UNCHANGED flag
  /\ pc' = [pc EXCEPT ![t] = "smsLookup"]
  /\ \E reply \in LookupReplies : found' = [found EXCEPT ![t] = reply]
  /\ UNCHANGED <<rs, idx, out, rowVars>>
  /\ UNCHANGED <<proc, mainPc, authVars, pool, connectCalls, phone, driveVars, notifyFailed,
                 resp, smsLog, phoneVars, sideVars>>

\* lines 352-361 and 208-220: the UPDATE settles; on success sendSMS is called,
\* connectToDatabase returns the existing pool and the customer SELECT is issued
UpdateDone(t) ==
  /\ proc = "up"
  /\ pc[t] = "update"
  /\ \/ /\ flag' = [flag EXCEPT ![Cur(t)] = "T"]
        /\ pc' = [pc EXCEPT ![t] = "smsLookup"]
        /\ \E reply \in LookupReplies : found' = [found EXCEPT ![t] = reply]
        /\ UNCHANGED <<rs, idx, out, rowVars>>
     \/ /\ RowEnds(t, "updateErr")
        /\ UNCHANGED <<flag, found>>
  /\ UNCHANGED <<proc, mainPc, authVars, pool, connectCalls, phone, driveVars, notifyFailed,
                 resp, smsLog, phoneVars, sideVars>>

\* a failed notification putting the row back for a retry
SmsFailsRevert(t, result) ==
  /\ notifyFailed' = notifyFailed \cup {Cur(t)}
  /\ flag' = [flag EXCEPT ![Cur(t)] = "F"]
  /\ RowEnds(t, result)

\* a failed notification escaping to the catch of the callback
SmsFailsAbort(t, result) ==
  /\ notifyFailed' = notifyFailed \cup {Cur(t)}
  /\ pc' = [pc EXCEPT ![t] = "done"]
  /\ out' = [out EXCEPT ![t] = Append(@, result)]
  /\ link' = [link EXCEPT ![t] = 0]
  /\ req' = [req EXCEPT ![t] = NoReq]
  /\ UNCHANGED <<flag, rs, idx>>

\* lines 265-267: a sendSMS call that ended without a sent and logged message;
\* the error is logged inside sendSMS and the row's processing ends
SmsFails(t, result) ==
  /\ notifyFailed' = notifyFailed \cup {Cur(t)}
  /\ UNCHANGED flag
  /\ RowEnds(t, result)

\* lines 231-236: the url is built and axios.get is called
SmsRequest(t) ==
  /\ req' = [req EXCEPT ![t] = GatewayUrl(FormatPhone(phone[Cur(t)]), LinkOf(Cur(t), link[t]))]
  /\ \E reply \in GatewayReplies : resp' = [resp EXCEPT ![t] = reply]
  /\ pc' = [pc EXCEPT ![t] = "smsGet"]
  /\ UNCHANGED <<flag, rs, idx, out, link, notifyFailed>>

\* the opt-in flag not looked at
SmsLookupDoneAnyFlag(t) ==
  /\ proc = "up"
  /\ pc[t] = "smsLookup"
  /\ found' = [found EXCEPT ![t] = "-"]
  /\ IF found[t] = "throw"
       THEN SmsFails(t, "smsFail") /\ UNCHANGED resp
       ELSE IF found[t] = "none"
         THEN RowEnds(t, "suppressed") /\ UNCHANGED <<flag, notifyFailed, resp>>
         ELSE SmsRequest(t)
  /\ UNCHANGED <<proc, mainPc, authVars, pool, connectCalls, phone, driveVars, smsLog,
                 phoneVars, sideVars>>

\* lines 214-236 and 261-267: the customer SELECT settles
SmsLookupDone(t) ==
  /\ proc = "up"
  /\ pc[t] = "smsLookup"
  /\ found' = [found EXCEPT ![t] = "-"]
  /\ IF found[t] = "throw"
       THEN SmsFails(t, "smsFail") /\ UNCHANGED resp
       ELSE IF found[t] \in {"none", "F"}             \* no profile, or not active
         THEN RowEnds(t, "suppressed") /\ UNCHANGED <<flag, notifyFailed, resp>>
         ELSE SmsRequest(t)                           \* SMARTINVOICE_ACTIVE === 'T'
  /\ UNCHANGED <<proc, mainPc, authVars, pool, connectCalls, phone, driveVars, smsLog,
                 phoneVars, sideVars>>

\* the reply not looked at before the INSERT
SmsGetDoneAnyReply(t) ==
  /\ proc = "up"
  /\ pc[t] = "smsGet"
  /\ resp' = [resp EXCEPT ![t] = NoReply]
  /\ IF resp[t] = Thrown
       THEN SmsFails(t, "smsFail")
       ELSE /\ pc' = [pc EXCEPT ![t] = "smsLog"]
            /\ UNCHANGED <<flag, rs, idx, out, rowVars, notifyFailed>>
  /\ UNCHANGED <<proc, mainPc, authVars, pool, connectCalls, phone, driveVars, found, smsLog,
                 phoneVars, sideVars>>

\* lines 236-259: axios.get settles
SmsGetDone(t) ==
  /\ proc = "up"
  /\ pc[t] = "smsGet"
  /\ resp' = [resp EXCEPT ![t] = NoReply]
  /\ IF resp[t] = Thrown \/ ~GatewayOk(resp[t])    \* the request throws, or res[0] is not "OK"
       THEN SmsFails(t, "smsFail")
       ELSE /\ pc' = [pc EXCEPT ![t] = "smsLog"]
            /\ UNCHANGED <<flag, rs, idx, out, rowVars, notifyFailed>>
  /\ UNCHANGED <<proc, mainPc, authVars, pool, connectCalls, phone, driveVars, found, smsLog,
                 phoneVars, sideVars>>

\* lines 245-256: the INSERT INTO tb_SMS_LOG settles
SmsLogDone(t) ==
  /\ proc = "up"
  /\ pc[t] = "smsLog"
  /\ \/ /\ SmsFails(t, "smsFail")
        /\ UNCHANGED smsLog
     \/ /\ smsLog' = smsLog \cup {[cust |-> Cur(t), phone |-> FormatPhone(phone[Cur(t)]),
                                  url |-> LinkOf(Cur(t), link[t])]}
        /\ RowEnds(t, "sent")
        /\ UNCHANGED <<flag, notifyFailed>>
  /\ UNCHANGED <<proc, mainPc, authVars, pool, connectCalls, phone, driveVars, found, resp,
                 phoneVars, sideVars>>

\* ---------------------------------------------------------------- phone check alone
\* lines 330-341 applied to rawPhone
PhoneValidate ==
  /\ phonePc = "start"
  /\ customerPhone' = FormatPhone(rawPhone)
  /\ phonePc' = IF ValidPhone(rawPhone) THEN "valid" ELSE "skipped"
  /\ UNCHANGED <<proc, mainPc, authVars, dbVars, driveVars, notifyFailed, tickVars, smsVars,
                 rawPhone, toParam, sideVars>>

\* lines 361 and 234: customerPhone is the `to` parameter of the gateway url
PhoneSend ==
  /\ phonePc = "valid"
  /\ toParam' = customerPhone
  /\ phonePc' = "sent"
  /\ UNCHANGED <<proc, mainPc, authVars, dbVars, driveVars, notifyFailed, tickVars, smsVars,
                 rawPhone, customerPhone, sideVars>>

\* ---------------------------------------------------------------- retention sweep
FileIds == 1..NumFiles
Days == 2..4
FileRecords == [createdTime : Days, pdf : BOOLEAN, inFolder : BOOLEAN]

\* the comparison of line 290 taken as "not newer than"
AgedInclusive(f) == files[f].createdTime <= oneWeekAgo

\* line 290: fileCreatedTime < oneWeekAgo
Aged(f) == files[f].createdTime < oneWeekAgo

\* lines 279-283: the q of files.list
Listed == {f \in present : files[f].pdf /\ files[f].inFolder}

\* line 282: orderBy "createdTime desc"; files of one day come in any order
Listings(S) ==
  {l \in [1..Cardinality(S) -> S] :
     /\ \A i, j \in 1..Cardinality(S) : i # j => l[i] # l[j]
     /\ \A i, j \in 1..Cardinality(S) : i < j => files[l[i]].createdTime >= files[l[j]].createdTime}

\* lines 286-290: the first file at or after position i that is older than a week
RECURSIVE NextAged(_, _)
NextAged(l, i) ==
  IF i > Len(l) THEN i
  ELSE IF Aged(l[i]) THEN i
  ELSE NextAged(l, i + 1)

\* lines 286-298: the for loop from position i up to its next await or its end
SweepLoop(l, i) ==
  LET k == NextAged(l, i) IN
    /\ sweepIdx' = k
    /\ IF k <= Len(l)
         THEN /\ sweepPc' = "delete"
              /\ attempted' = attempted \cup {l[k]}
         ELSE /\ sweepPc' = "done"
              /\ UNCHANGED attempted

SweepFrame ==
  UNCHANGED <<proc, mainPc, authVars, dbVars, driveVars, notifyFailed, tickVars, smsVars,
              phoneVars, folderVars>>

\* lines 314-316 and 275-279: the 24 h timer fires, files.list is called
SweepFire ==
  /\ proc = "up"
  /\ mainPc = "polling"
  /\ sweepPc \in {"idle", "done"}
  /\ sweeps < MaxSweeps
  /\ sweeps' = sweeps + 1
  /\ now' = now + SweepPeriodDays
  /\ oneWeekAgo' = (now + SweepPeriodDays) - RetentionDays
  /\ listing' = <<>>
  /\ sweepIdx' = 1
  /\ sweepErr' = FALSE
  /\ attempted' = {}
  /\ sweepPc' = "list"
  /\ UNCHANGED <<files, present>>
  /\ SweepFrame

\* lines 279-298: files.list settles
SweepListDone ==
  /\ sweepPc = "list"
  /\ \/ \E l \in Listings(Listed) :
          /\ listing' = l
          /\ SweepLoop(l, 1)
          /\ UNCHANGED sweepErr
     \/ /\ sweepPc' = "done"
        /\ sweepErr' = TRUE
        /\ UNCHANGED <<listing, sweepIdx, attempted>>
  /\ UNCHANGED <<files, present, now, oneWeekAgo, sweeps>>
  /\ SweepFrame

\* lines 292-301: files.delete settles
SweepDeleteDone ==
  /\ sweepPc = "delete"
  /\ \/ /\ present' = present \ {listing[sweepIdx]}
        /\ SweepLoop(listing, sweepIdx + 1)
        /\ UNCHANGED sweepErr
     \/ /\ sweepPc' = "done"
        /\ sweepErr' = TRUE
        /\ UNCHANGED <<present, sweepIdx, attempted>>
  /\ UNCHANGED <<files, now, oneWeekAgo, listing, sweeps>>
  /\ SweepFrame

\* ---------------------------------------------------------------- getOrCreateFolder
FolderIds == 1..MaxFolders
FolderNames == {"Smart_Invoice", "Invoices"}
FolderPaths == {<<"Smart_Invoice">>, <<"Smart_Invoice", "Invoices">>}

\* lines 138-141: the q of files.list; the parent clause is left out while
\* currentParentId is null
Matches(name, parent) ==
  {f \in folders : f.name = name /\ (parent # 0 => f.parent = parent)}

FolderFrame ==
  UNCHANGED <<proc, mainPc, authVars, dbVars, driveVars, notifyFailed, tickVars, smsVars,
              phoneVars, sweepVars>>

\* lines 163-167: currentParentId = folderId, then the next segment or the return
FolderDescend(id) ==
  IF folderSeg = Len(folderPath)
    THEN /\ folderPc' = "returned"
         /\ handles' = Append(handles, id)
         /\ currentParentId' = id
         /\ UNCHANGED folderSeg
    ELSE /\ folderPc' = "list"
         /\ folderSeg' = folderSeg + 1
         /\ currentParentId' = id
         /\ UNCHANGED handles

\* lines 130-141: getOrCreateFolder is called, files.list is called for the first segment
FolderCall ==
  /\ folderPc \in {"idle", "returned"}
  /\ Len(handles) < MaxCalls
  /\ folderPc' = "list"
  /\ folderSeg' = 1
  /\ currentParentId' = 0
  /\ madeBy' = Append(madeBy, 0)
  /\ UNCHANGED <<folders, folderPath, handles>>
  /\ FolderFrame

\* lines 138-160: files.list settles
FolderListDone ==
  /\ folderPc = "list"
  /\ \/ /\ Matches(folderPath[folderSeg], currentParentId) # {}
        /\ \E f \in Matches(folderPath[folderSeg], currentParentId) : FolderDescend(f.id)
     \/ /\ Matches(folderPath[folderSeg], currentParentId) = {}
        /\ folderPc' = "create"
        /\ UNCHANGED <<folderSeg, currentParentId, handles>>
     \/ /\ folderPc' = "failed"
        /\ UNCHANGED <<folderSeg, currentParentId, handles>>
  /\ UNCHANGED <<folders, folderPath, madeBy>>
  /\ FolderFrame

\* lines 151-171: files.create settles
FolderCreateDone ==
  /\ folderPc = "create"
  /\ \/ /\ Cardinality(folders) < MaxFolders
        /\ LET id == Cardinality(folders) + 1 IN
             /\ folders' = folders \cup {[id |-> id, name |-> folderPath[folderSeg],
                                         parent |-> currentParentId]}
             /\ FolderDescend(id)
        /\ madeBy' = [madeBy EXCEPT ![Len(madeBy)] = @ + 1]
     \/ /\ folderPc' = "failed"
        /\ UNCHANGED <<folders, folderSeg, currentParentId, handles, madeBy>>
  /\ UNCHANGED folderPath
  /\ FolderFrame

\* ---------------------------------------------------------------- specifications
FullToken == TokenFields

InitTicks ==
  /\ pc = [t \in Ticks |-> "idle"]
  /\ rs = [t \in Ticks |-> <<>>]
  /\ idx = [t \in Ticks |-> 1]
  /\ out = [t \in Ticks |-> <<>>]
  /\ link = [t \in Ticks |-> 0]
  /\ req = [t \in Ticks |-> NoReq]
  /\ found = [t \in Ticks |-> "-"]
  /\ resp = [t \in Ticks |-> NoReply]
  /\ smsLog = {}

InitStore ==
  /\ pool = 0
  /\ connectCalls = 0
  /\ flag = [r \in Rows |-> "F"]
  /\ docs = [r \in Rows |-> 0]
  /\ uploaded = [r \in Rows |-> FALSE]
  /\ notifyFailed = {}

InitPhoneOff ==
  /\ rawPhone = <<>>
  /\ customerPhone = Null
  /\ toParam = Null
  /\ phonePc = "off"

InitSweepOff ==
  /\ files = <<>>
  /\ present = {}
  /\ now = 0
  /\ oneWeekAgo = 0
  /\ listing = <<>>
  /\ sweepIdx = 1
  /\ sweepPc = "off"
  /\ sweepErr = FALSE
  /\ attempted = {}
  /\ sweeps = 0

InitFolderOff ==
  /\ folders = {}
  /\ folderPath = <<>>
  /\ folderPc = "off"
  /\ folderSeg = 1
  /\ currentParentId = 0
  /\ handles = <<>>
  /\ madeBy = <<>>

\* the poller: started with a usable token file or none
Init ==
  /\ proc = "up"
  /\ mainPc = "start"
  /\ credsExist = TRUE
  /\ tokenExists \in BOOLEAN
  /\ tokenJsonOk = TRUE
  /\ tokenFile = IF tokenExists THEN FullToken ELSE {}
  /\ token = {}
  /\ listener = "none"
  /\ reauth = "no"
  /\ phone \in [Rows -> {PhoneIntl, PhoneLocal, PhoneBad}]
  /\ \A r \in Rows : phone[r] # (IF r % 2 = 1 THEN PhoneLocal ELSE PhoneIntl)
  /\ InitStore
  /\ InitTicks
  /\ InitPhoneOff
  /\ InitSweepOff
  /\ InitFolderOff

Next ==
  \/ AuthStart
  \/ AuthRefreshDone
  \/ AuthPromptAnswered
  \/ AuthExchangeDone
  \/ FolderDone
  \/ \E t \in Ticks : TickFire(t)
  \/ \E t \in Ticks : ConnectDone(t)
  \/ \E t \in Ticks : QueryDone(t)
  \/ \E t \in Ticks : CreateDone(t)
  \/ \E t \in Ticks : PermDone(t)
  \/ \E t \in Ticks : UpdateDone(t)
  \/ \E t \in Ticks : SmsLookupDone(t)
  \/ \E t \in Ticks : SmsGetDone(t)
  \/ \E t \in Ticks : SmsLogDone(t)

Spec == Init /\ [][Next]_vars

\* authorize with any token file, and the token refreshes that follow it
InitAuth ==
  /\ proc = "up"
  /\ mainPc = "start"
  /\ credsExist \in BOOLEAN
  /\ tokenExists \in BOOLEAN
  /\ tokenJsonOk \in BOOLEAN
  /\ tokenFile \in TokenRecords
  /\ ~tokenExists => (tokenJsonOk /\ tokenFile = {})
  /\ ~tokenJsonOk => tokenFile = {}
  /\ token = {}
  /\ listener = "none"
  /\ reauth = "no"
  /\ phone = [r \in Rows |-> PhoneLocal]
  /\ InitStore
  /\ InitTicks
  /\ InitPhoneOff
  /\ InitSweepOff
  /\ InitFolderOff

NextAuth ==
  \/ AuthStart
  \/ AuthRefreshDone
  \/ AuthPromptAnswered
  \/ AuthExchangeDone
  \/ FolderDone
  \/ TokensEvent

AuthSpec == InitAuth /\ [][NextAuth]_vars

\* the phone strings tried: a head, a run of digits with at most one other
\* character in it, and a tail; and the three numbers of the specification
StringsUpTo(alphabet, n) == UNION {[1..k -> alphabet] : k \in 0..n}
Sevens(k) == [i \in 1..k |-> "7"]
PhoneMids ==
  {Sevens(k) : k \in (MaxMid - 3)..MaxMid}
    \cup UNION {{[Sevens(k) EXCEPT ![j] = "x"] : j \in 1..k} : k \in (MaxMid - 3)..MaxMid}
PhoneInputs ==
  {h \o m \o tl : h \in StringsUpTo({"0", "9", "4", "x"}, 2), m \in PhoneMids,
                  tl \in StringsUpTo({"0", "x"}, 2)}
    \cup {PhoneIntl, PhoneLocal, PhoneBad}

InitPhone ==
  /\ proc = "up"
  /\ mainPc = "start"
  /\ credsExist = TRUE
  /\ tokenExists = FALSE
  /\ tokenJsonOk = TRUE
  /\ tokenFile = {}
  /\ token = {}
  /\ listener = "none"
  /\ reauth = "no"
  /\ phone = [r \in Rows |-> PhoneLocal]
  /\ InitStore
  /\ InitTicks
  /\ rawPhone \in PhoneInputs
  /\ customerPhone = Null
  /\ toParam = Null
  /\ phonePc = "start"
  /\ InitSweepOff
  /\ InitFolderOff

NextPhone ==
  \/ PhoneValidate
  \/ PhoneSend

PhoneSpec == InitPhone /\ [][NextPhone]_vars

\* the retention sweeps of a running poller: the folder holds any files
InitSweep ==
  /\ proc = "up"
  /\ mainPc = "polling"
  /\ credsExist = TRUE
  /\ tokenExists = TRUE
  /\ tokenJsonOk = TRUE
  /\ tokenFile = FullToken
  /\ token = FullToken
  /\ listener = "merge"
  /\ reauth = "no"
  /\ phone = [r \in Rows |-> PhoneLocal]
  /\ InitStore
  /\ InitTicks
  /\ InitPhoneOff
  /\ InitFolderOff
  /\ files \in [FileIds -> FileRecords]
  /\ present = FileIds
  /\ now = 9
  /\ oneWeekAgo = 0
  /\ listing = <<>>
  /\ sweepIdx = 1
  /\ sweepPc = "idle"
  /\ sweepErr = FALSE
  /\ attempted = {}
  /\ sweeps = 0

NextSweep ==
  \/ SweepFire
  \/ SweepListDone
  \/ SweepDeleteDone

SweepSpec == InitSweep /\ [][NextSweep]_vars

\* the folders Drive holds when getOrCreateFolder is first called: ids 1..n
InitialFolders ==
  UNION {{fs \in SUBSET [id : 1..n, name : FolderNames, parent : 0..n] :
            /\ Cardinality(fs) = n
            /\ \A f, g \in fs : f.id = g.id => f = g
            /\ \A f \in fs : f.parent < f.id} : n \in 0..(MaxFolders - 2)}

\* two calls of getOrCreateFolder, one after the other
InitFolder ==
  /\ proc = "up"
  /\ mainPc = "folder"
  /\ credsExist = TRUE
  /\ tokenExists = TRUE
  /\ tokenJsonOk = TRUE
  /\ tokenFile = FullToken
  /\ token = FullToken
  /\ listener = "merge"
  /\ reauth = "no"
  /\ phone = [r \in Rows |-> PhoneLocal]
  /\ InitStore
  /\ InitTicks
  /\ InitPhoneOff
  /\ InitSweepOff
  /\ folders \in InitialFolders
  /\ folderPath \in FolderPaths
  /\ folderPc = "idle"
  /\ folderSeg = 1
  /\ currentParentId = 0
  /\ handles = <<>>
  /\ madeBy = <<>>

NextFolder ==
  \/ FolderCall
  \/ FolderListDone
  \/ FolderCreateDone

FolderSpec == InitFolder /\ [][NextFolder]_vars

\* one poll timer whose callbacks do not overlap, every request settling, and
\* the SELECT, the upload and the UPDATE not failing forever
LiveTicks == {1}

NextLive ==
  \/ AuthStart
  \/ AuthRefreshDone
  \/ AuthPromptAnswered
  \/ AuthExchangeDone
  \/ FolderDone
  \/ \E t \in LiveTicks : TickFire(t)
  \/ \E t \in LiveTicks : ConnectDone(t)
  \/ \E t \in LiveTicks : QueryDone(t)
  \/ \E t \in LiveTicks : CreateDone(t)
  \/ \E t \in LiveTicks : PermDone(t)
  \/ \E t \in LiveTicks : UpdateDone(t)
  \/ \E t \in LiveTicks : SmsLookupDone(t)
  \/ \E t \in LiveTicks : SmsGetDone(t)
  \/ \E t \in LiveTicks : SmsLogDone(t)

Fairness ==
  /\ WF_vars(NextLive)
  /\ \A t \in LiveTicks :
       /\ SF_vars(QueryDone(t) /\ RowLoop(t, SelectPending(flag, 1), 1, <<>>))
       /\ SF_vars(CreateDone(t) /\ pc'[t] = "perm")
       /\ SF_vars(PermDone(t) /\ pc'[t] = "update")
       /\ SF_vars(UpdateDone(t) /\ pc'[t] = "smsLookup")

LiveSpec == Init /\ [][NextLive]_vars /\ Fairness

TypeOK ==
  /\ proc \in {"up", "exit1"}
  /\ mainPc \in {"start", "refresh", "prompt", "exchange", "folder", "polling", "failed"}
  /\ flag \in [Rows -> {"F", "T"}]
  /\ docs \in [Rows -> 0..MaxDocs]
  /\ \A t \in Ticks : idx[t] \in 1..(Len(rs[t]) + 1)
  /\ \A t \in Ticks : link[t] \in 0..MaxDocs
  /\ \A t \in Ticks : found[t] \in LookupReplies \cup {"-"}
  /\ \A t \in Ticks : resp[t] \in GatewayReplies \cup {NoReply}
  /\ present \subseteq DOMAIN files
  /\ sweepPc \in {"off", "idle", "list", "delete", "done"}
  /\ sweeps \in 0..MaxSweeps
  /\ Cardinality(folders) <= MaxFolders
  /\ folderPc \in {"off", "idle", "list", "create", "returned", "failed"}
  /\ Len(handles) <= MaxCalls

\* ---------------------------------------------------------------- properties
SmsPcs == {"smsLookup", "smsGet", "smsLog"}
RowPcs == {"create", "perm", "update"} \cup SmsPcs

\* tick t's SELECT settles successfully in this step
Fetches(t) == pc[t] = "query" /\ pc'[t] # "query"

\* C1 as stated: when a tick completes, every row it fetched is either still
\* Pending with no document created for it, its phone check or upload having
\* failed, or Uploaded with exactly one document created for it.
C1_Original ==
  \A t \in Ticks : pc[t] = "done" =>
    \A k \in 1..Len(rs[t]) :
      \/ /\ flag[rs[t][k]] = "F"
         /\ docs[rs[t][k]] = 0
         /\ out[t][k] \in {"invalid", "uploadErr"}
      \/ /\ flag[rs[t][k]] = "T"
         /\ docs[rs[t][k]] = 1

\* C1 amended: when a tick completes, every row it fetched is either still
\* Pending, its phone check, its upload or its flag update having failed in
\* this tick, or Uploaded with at least one completed upload.
C1_TickOutcome ==
  \A t \in Ticks : pc[t] = "done" =>
    \A k \in 1..Len(rs[t]) :
      /\ k \in DOMAIN out[t]
      /\ \/ /\ flag[rs[t][k]] = "F"
            /\ out[t][k] \in {"invalid", "uploadErr", "updateErr"}
         \/ /\ flag[rs[t][k]] = "T"
            /\ uploaded[rs[t][k]]
            /\ docs[rs[t][k]] >= 1

\* a tick has completed with one fetched row Uploaded and another still
\* Pending, a document created for it, because its flag update failed
C1_Witness ==
  \E t \in Ticks : pc[t] = "done" /\
    \E k, m \in 1..Len(rs[t]) :
      /\ flag[rs[t][k]] = "T"
      /\ flag[rs[t][m]] = "F"
      /\ out[t][m] = "updateErr"
      /\ docs[rs[t][m]] >= 1

\* C2: a row is flagged Uploaded only after uploadToDrive returned for it, and
\* no step ever takes an Uploaded row back to Pending.
C2_UploadedOnlyAfterUpload ==
  /\ [](\A r \in Rows : flag[r] = "T" => uploaded[r])
  /\ [][\A r \in Rows : flag[r] = "T" => flag'[r] = "T"]_vars

\* a row is Uploaded, its notification has failed, and a tick has fired since
C2_Witness ==
  \E r \in Rows : flag[r] = "T" /\ uploaded[r] /\ r \in notifyFailed
    /\ \E t \in Ticks : pc[t] = "query"

\* C3: while sendSMS runs for a row the row is already flagged Uploaded, and a
\* SELECT that settles after a notification failed for a row does not return
\* that row, so no tick started from then on uploads it.
C3_UpdateBeforeNotify ==
  /\ [](\A t \in Ticks : pc[t] \in SmsPcs => flag[Cur(t)] = "T")
  /\ [][\A t \in Ticks : Fetches(t) =>
          \A k \in 1..Len(rs'[t]) : rs'[t][k] \notin notifyFailed]_vars

\* a tick is uploading another row after the notification of a row failed
\* that stays out of its result set
C3_Witness ==
  \E t \in Ticks : \E r \in notifyFailed :
    /\ pc[t] = "create"
    /\ flag[r] = "T"
    /\ \A k \in 1..Len(rs[t]) : rs[t][k] # r
    /\ \A u \in Ticks \ {t} : pc[u] \in {"idle", "done"}

\* C4 as stated: no upload is started for a row whose flag is already Uploaded.
C4_Original ==
  [][\A t \in Ticks :
       (pc'[t] = "create" /\ (pc[t] # "create" \/ idx'[t] # idx[t]))
         => flag[rs'[t][idx'[t]]] = "F"]_vars

\* C4 amended: the result set of a tick holds only rows that are Pending when
\* its SELECT settles, and the tick works on rows of that result set only.
C4_FetchedPendingOnly ==
  /\ [][\A t \in Ticks : Fetches(t) =>
          \A k \in 1..Len(rs'[t]) : flag[rs'[t][k]] = "F"]_vars
  /\ [](\A t \in Ticks : pc[t] \in RowPcs => idx[t] \in 1..Len(rs[t]))

\* a tick works on a row while another row, Uploaded before, is not in its
\* result set
C4_Witness ==
  \E t \in Ticks : \E r \in Rows :
    /\ pc[t] \in RowPcs
    /\ flag[r] = "T"
    /\ \A k \in 1..Len(rs[t]) : rs[t][k] # r

\* C5: the step in which a notification fails leaves the row Uploaded and takes
\* the loop to the next row with a valid phone, or to the end of the tick.
C5_NotifyFailureKeepsUploaded ==
  [][\A t \in Ticks :
       (pc[t] \in SmsPcs /\ Len(out'[t]) > Len(out[t]) /\ out'[t][idx[t]] = "smsFail")
         => /\ flag'[Cur(t)] = "T"
            /\ rs'[t] = rs[t]
            /\ idx'[t] > idx[t]
            /\ \A k \in (idx[t] + 1)..(idx'[t] - 1) : ~ValidPhone(phone[rs[t][k]])
            /\ pc'[t] = IF idx'[t] <= Len(rs[t]) THEN "create" ELSE "done"]_vars

\* the notification of the first row failed, the row is Uploaded and the tick
\* is uploading the second row
C5_Witness ==
  \E t \in Ticks :
    /\ pc[t] = "create"
    /\ idx[t] = 2
    /\ out[t][1] = "smsFail"
    /\ flag[rs[t][1]] = "T"

\* C6: once startup has succeeded the process never exits.
C6_NoExitAfterStartup == mainPc = "polling" => proc = "up"

\* C7: a completed tick has processed every row of its result set, whatever
\* error ended the processing of an earlier row; a tick in progress has an
\* outcome for every row before its current one.
C7_RowErrorConfined ==
  \A t \in Ticks :
    /\ Len(out[t]) = idx[t] - 1
    /\ pc[t] = "done" => (Len(out[t]) = Len(rs[t]) \/ rs[t] = <<>>)
    /\ pc[t] \in RowPcs => idx[t] <= Len(rs[t])

\* a tick completed: its first row ended in an error, its second was uploaded
C7_Witness ==
  \E t \in Ticks :
    /\ pc[t] = "done"
    /\ Len(rs[t]) = 2
    /\ out[t][1] \in {"uploadErr", "updateErr", "smsFail"}
    /\ out[t][2] \in {"sent", "suppressed"}

\* C8: once authorize has returned a client the token file holds a
\* refresh_token, whatever token refreshes follow.
C8_RefreshTokenKept ==
  listener # "none" => (tokenExists /\ "refresh_token" \in tokenFile)

\* C9: when the token file lacks a refresh_token or its refresh is rejected
\* with invalid_grant, authorize does not go on to the interactive flow and
\* returns no client.
C9_NoRecovery ==
  reauth # "no" => mainPc \notin {"prompt", "exchange", "folder", "polling"}

\* C10: '94' and 9 digits map to '0' and those digits, '0' and 9 digits map to
\* themselves, every other string is rejected; what goes to the gateway is the
\* mapped number, 10 characters starting with '0'.
IsIntl(s) == Len(s) = 11 /\ s[1] = "9" /\ s[2] = "4" /\ \A i \in 3..11 : s[i] \in Digits
IsLocal(s) == Len(s) = 10 /\ s[1] = "0" /\ \A i \in 2..10 : s[i] \in Digits
C10_PhoneMapping ==
  /\ phonePc \in {"valid", "skipped", "sent"} =>
       /\ IsIntl(rawPhone) =>
            /\ phonePc # "skipped"
            /\ customerPhone = <<"0">> \o SubSeq(rawPhone, 3, 11)
       /\ IsLocal(rawPhone) =>
            /\ phonePc # "skipped"
            /\ customerPhone = rawPhone
       /\ (~IsIntl(rawPhone) /\ ~IsLocal(rawPhone)) => phonePc = "skipped"
  /\ phonePc = "sent" =>
       /\ toParam = customerPhone
       /\ Len(toParam) = 10
       /\ toParam[1] = "0"

\* 94771234567 was sent to the gateway as 0771234567
C10_Witness ==
  /\ phonePc = "sent"
  /\ rawPhone = PhoneIntl
  /\ toParam = PhoneLocal

\* C11: a row whose phone is rejected is never uploaded, flagged, notified or
\* logged; every tick that has passed it skipped it, and every SELECT that
\* settles returns it again.
C11_InvalidRowUntouched ==
  /\ [](\A r \in Rows : FormatPhone(phone[r]) = Null =>
          /\ flag[r] = "F"
          /\ docs[r] = 0
          /\ ~uploaded[r]
          /\ r \notin notifyFailed
          /\ \A e \in smsLog : e.cust # r
          /\ \A t \in Ticks :
               /\ pc[t] \in RowPcs => Cur(t) # r
               /\ \A k \in 1..Len(out[t]) : rs[t][k] = r => out[t][k] = "invalid")
  /\ [][\A t \in Ticks : \A r \in Rows :
          (Fetches(t) /\ pc'[t] # "done" /\ FormatPhone(phone[r]) = Null)
            => \E k \in 1..Len(rs'[t]) : rs'[t][k] = r]_vars

\* a tick has skipped a row with a rejected phone, uploaded the other row and
\* completed, and a later tick has fetched the rejected row again
C11_Witness ==
  \E t, u \in Ticks : \E r \in Rows :
    /\ FormatPhone(phone[r]) = Null
    /\ pc[t] = "done"
    /\ \E k \in 1..Len(rs[t]) : rs[t][k] = r /\ out[t][k] = "invalid"
    /\ \E q \in Rows : flag[q] = "T"
    /\ pc[u] = "done"
    /\ rs[u] = <<r>>
    /\ out[u] = <<"invalid">>

\* C12: the step that ends the customer SELECT of sendSMS sends a gateway
\* request exactly when the profile was found with SMARTINVOICE_ACTIVE 'T';
\* with no profile or another flag value no request is sent, no record is
\* logged and the row stays Uploaded. A request is under way only then.
C12_NotifyOnlyWhenActive ==
  /\ [][\A t \in Ticks : (pc[t] = "smsLookup" /\ found'[t] # found[t]) =>
          /\ (pc'[t] = "smsGet") <=> (found[t] = "T")
          /\ (req'[t] # NoReq) <=> (found[t] = "T")
          /\ found[t] \in {"none", "F"} =>
               /\ smsLog' = smsLog
               /\ resp'[t] = NoReply
               /\ flag'[Cur(t)] = "T"
               /\ Len(out'[t]) >= idx[t] /\ out'[t][idx[t]] = "suppressed"]_vars
  /\ [](\A t \in Ticks : (req[t] # NoReq \/ resp[t] # NoReply) => pc[t] \in {"smsGet", "smsLog"})

\* a row's notification was suppressed: the row is Uploaded, nothing is logged
C12_Witness ==
  \E t \in Ticks :
    /\ pc[t] = "done"
    /\ \E k \in 1..Len(rs[t]) : out[t][k] = "suppressed" /\ flag[rs[t][k]] = "T"
    /\ smsLog = {}

\* the first token of a gateway reply is OK: blanks, OK, blanks, then the end
\* or a colon
FirstTokenIsOK(s) ==
  \E i \in 0..Len(s) : \E j \in (i + 2)..Len(s) :
    /\ \A k \in 1..i : s[k] = " "
    /\ s[i + 1] = "O"
    /\ s[i + 2] = "K"
    /\ \A k \in (i + 3)..j : s[k] = " "
    /\ j = Len(s) \/ s[j + 1] = ":"

\* C13 as stated: whenever the gateway's reply has first token OK, the call
\* ends with the record in the log table.
C13_Original ==
  [][\A t \in Ticks : (pc[t] = "smsLog" /\ pc'[t] # "smsLog") =>
       [cust |-> Cur(t), phone |-> req[t].to, url |-> LinkOf(Cur(t), link[t])] \in smsLog']_vars

\* C13: the INSERT into tb_SMS_LOG is issued exactly when the first token of
\* the gateway's reply is OK; the record is in the table exactly when that
\* INSERT succeeds, otherwise the notification counts as failed and the table
\* is unchanged; and the only records ever added carry the row's customer, the
\* phone the message went to and the link that uploadToDrive returned, which
\* is the link in the message text.
C13_LoggedIffOk ==
  /\ [][\A t \in Ticks : (pc[t] = "smsLog" /\ pc'[t] # "smsLog") =>
          IF Len(out'[t]) >= idx[t] /\ out'[t][idx[t]] = "sent"
            THEN smsLog' = smsLog \cup {[cust |-> Cur(t), phone |-> req[t].to,
                                         url |-> LinkOf(Cur(t), link[t])]}
            ELSE Len(out'[t]) >= idx[t] /\ out'[t][idx[t]] = "smsFail" /\ smsLog' = smsLog]_vars
  /\ [][\A t \in Ticks : (pc[t] = "smsGet" /\ pc'[t] # "smsGet") =>
          /\ (pc'[t] = "smsLog") <=> (resp[t] # Thrown /\ FirstTokenIsOK(resp[t]))
          /\ smsLog' = smsLog]_vars
  /\ [][smsLog' # smsLog =>
          \E t \in Ticks :
            /\ pc[t] = "smsLog"
            /\ link[t] \in 1..docs[Cur(t)]
            /\ uploaded[Cur(t)]
            /\ smsLog' = smsLog \cup {[cust |-> Cur(t), phone |-> req[t].to,
                                       url |-> LinkOf(Cur(t), link[t])]}
            /\ req[t].to = FormatPhone(phone[Cur(t)])
            /\ req[t].text = Escape(MessageText(LinkOf(Cur(t), link[t])))]_vars
  /\ [](\A t \in Ticks : pc[t] = "smsLog" => out[t] = SubSeq(out[t], 1, idx[t] - 1))

\* a record with the link of the row's second document has been logged
C13_Witness ==
  \E t \in Ticks : \E r \in Rows :
    /\ pc[t] = "done"
    /\ \E k \in 1..Len(rs[t]) : rs[t][k] = r /\ out[t][k] = "sent"
    /\ [cust |-> r, phone |-> PhoneLocal, url |-> LinkOf(r, 2)] \in smsLog

\* C16: uploadToDrive returns only after the document was created and the
\* permission granted; the step in which the grant fails ends the row with an
\* upload error and leaves the created document and the flag as they are; a
\* SELECT that settles returns every row still Pending.
C16_PartialUploadKept ==
  /\ [][\A t \in Ticks : (pc[t] = "perm" /\ pc'[t] # "perm") =>
          IF pc'[t] = "update"
            THEN uploaded'[Cur(t)] /\ link[t] = link'[t]
            ELSE /\ Len(out'[t]) >= idx[t] /\ out'[t][idx[t]] = "uploadErr"
                 /\ docs' = docs
                 /\ uploaded' = uploaded
                 /\ flag' = flag]_vars
  /\ [][\A t \in Ticks : (Fetches(t) /\ pc'[t] # "done") =>
          \A r \in Rows : flag[r] = "F" => \E k \in 1..Len(rs'[t]) : rs'[t][k] = r]_vars
  /\ [](\A t \in Ticks : pc[t] \in ({"perm", "update"} \cup SmsPcs) =>
          link[t] \in 1..docs[Cur(t)])

\* a second document has been created for a row that is still Pending after
\* the permission grant for its first document failed
C16_Witness ==
  \E t \in Ticks : \E r \in Rows :
    /\ pc[t] = "perm"
    /\ Cur(t) = r
    /\ docs[r] = 2
    /\ flag[r] = "F"
    /\ ~uploaded[r]

\* C17: mssql.connect is called at most once in the life of the process.
C17_ConnectOnce == connectCalls <= 1

\* C19: when the UPDATE settles for a row, sendSMS is called only if the row
\* is flagged Uploaded from then on; otherwise the row ends with an update
\* error: no flag is written, nothing is requested from the gateway or logged,
\* and the loop goes on with the next row with a valid phone or ends the tick.
C19_UpdateFailureSkipsNotify ==
  [][\A t \in Ticks : (pc[t] = "update" /\ pc'[t] # "update") =>
       IF flag'[Cur(t)] = "T" /\ pc'[t] = "smsLookup"
         THEN idx'[t] = idx[t] /\ out'[t] = out[t]
         ELSE /\ Len(out'[t]) >= idx[t] /\ out'[t][idx[t]] = "updateErr"
              /\ flag' = flag
              /\ found'[t] = "-"
              /\ req'[t] = NoReq
              /\ notifyFailed' = notifyFailed
              /\ smsLog' = smsLog
              /\ idx'[t] > idx[t]
              /\ pc'[t] = IF idx'[t] <= Len(rs[t]) THEN "create" ELSE "done"]_vars

\* the flag update of a row failed in one tick and a later tick is uploading
\* the row again
C19_Witness ==
  \E t, u \in Ticks : \E r \in Rows :
    /\ pc[t] = "done"
    /\ \E k \in 1..Len(rs[t]) : rs[t][k] = r /\ out[t][k] = "updateErr"
    /\ pc[u] = "perm"
    /\ Cur(u) = r
    /\ docs[r] = 2
    /\ uploaded[r]
    /\ flag[r] = "F"

\* C14 as stated: when a sweep has completed, no PDF of the folder older than
\* the threshold is left and every file at or after the threshold is there.
C14_Original ==
  sweepPc = "done" =>
    \A f \in FileIds :
      /\ (files[f].pdf /\ files[f].inFolder /\ files[f].createdTime < oneWeekAgo) => f \notin present
      /\ files[f].createdTime >= oneWeekAgo => f \in present

\* C14: only PDFs of the folder strictly older than the threshold are ever
\* deleted; a sweep that completes with no request failed leaves none of them;
\* a sweep whose listing fails deletes nothing; a sweep in which a deletion
\* fails has deleted the aged files listed before that file and leaves that
\* file.
C14_SweepDeletesAged ==
  /\ [](\A f \in FileIds \ present :
          files[f].pdf /\ files[f].inFolder /\ files[f].createdTime < oneWeekAgo)
  /\ []((sweepPc = "done" /\ ~sweepErr) =>
          \A f \in present :
            ~(files[f].pdf /\ files[f].inFolder /\ files[f].createdTime < oneWeekAgo))
  /\ []((sweepPc = "done" /\ sweepErr /\ listing # <<>>) =>
          /\ listing[sweepIdx] \in present
          /\ \A k \in 1..(sweepIdx - 1) :
               files[listing[k]].createdTime < oneWeekAgo => listing[k] \notin present)
  /\ [][(sweepPc = "list" /\ sweepErr') => present' = present]_vars

\* a sweep has completed with no failure: an aged PDF is gone, a PDF created
\* exactly at the threshold and an aged file that is no PDF are still there
C14_Witness ==
  /\ sweepPc = "done"
  /\ ~sweepErr
  /\ \E f \in FileIds \ present : files[f].createdTime < oneWeekAgo
  /\ \E f \in present : files[f].pdf /\ files[f].inFolder /\ files[f].createdTime = oneWeekAgo
  /\ \E f \in present : ~files[f].pdf /\ files[f].createdTime < oneWeekAgo

\* C15: when a sweep has completed, it has called files.delete for every aged
\* file of its listing.
C15_DeletionsIndependent ==
  (sweepPc = "done" /\ listing # <<>>) =>
    \A k \in 1..Len(listing) :
      files[listing[k]].createdTime < oneWeekAgo => listing[k] \in attempted

\* the names on the way from the root to folder id
RECURSIVE PathTo(_)
PathTo(id) ==
  IF id = 0 THEN <<>>
  ELSE LET f == CHOOSE g \in folders : g.id = id IN Append(PathTo(f.parent), f.name)

\* C18: the handle getOrCreateFolder returns is a folder whose chain of
\* ancestors spells the path.
C18_HandleSpellsPath ==
  folderPc = "returned" => PathTo(handles[Len(handles)]) = folderPath

\* C20: from any moment at which the poller runs and a row with a valid phone
\* is Pending, the row is eventually Uploaded (or the model's bound on the
\* documents of a row is reached).
C20_EventuallyUploaded ==
  \A r \in Rows :
    [](  (mainPc = "polling" /\ flag[r] = "F" /\ FormatPhone(phone[r]) # Null)
      => <>(flag[r] = "T" \/ \E q \in Rows : docs[q] = MaxDocs))

\* the same with the exit of the process as a third outcome
UploadedUnlessExit ==
  \A r \in Rows :
    [](  (mainPc = "polling" /\ flag[r] = "F" /\ FormatPhone(phone[r]) # Null)
      => <>(flag[r] = "T" \/ proc # "up" \/ \E q \in Rows : docs[q] = MaxDocs))

====
